---------------------------- MODULE Spec2Model ----------------------------
(***************************************************************************)
(* Forward-shooting reproduction of Kiyotaki & Moore (1997), Figure 3.     *)
(* Model of src/code/kiyotaki_moore_1997.py: the steady state, the grid of *)
(* guesses for q_1, the per-period solve of every guess, the selection of  *)
(* the guess whose terminal price is closest to q* and the series handed   *)
(* to the plot.                                                            *)
(*                                                                         *)
(* Numbers.  The script computes in binary floating point.  Here a number  *)
(* is an exact rational <<n, d>> in lowest terms with d > 0, and the one   *)
(* non-finite value NaN is <<0, 0>>.  A name that has not been assigned    *)
(* yet holds Unset.                                                        *)
(***************************************************************************)
EXTENDS Integers, Sequences, FiniteSets, TLC

\* ------------------------------------------------------------- bounds ---
\* periods = 100+1 and trials = 1000 in the script; the model runs the same
\* loops over a shorter time line and a coarser grid.
periods == 4

trials == 3

\* The root-finder's iterates are looked for among the half-integers n/2,
\* 0 <= n <= MaxK2.
MaxK2 == 14

Guesses == 0 .. (trials - 1)

Times == 0 .. (periods - 1)

\* range(1, periods-1)
SolveTimes == 1 .. (periods - 2)

\* --------------------------------------------------------- arithmetic ---
Unset == << >>

\* index before it is assigned
NoIndex == 0 - 1

NaN == <<0, 0>>

IsNaN(x) == x = NaN

Abs(n) == IF n < 0 THEN -n ELSE n

RECURSIVE Gcd(_, _)
Gcd(a, b) == IF b = 0 THEN a ELSE Gcd(b, a % b)

Norm(n, d) ==
    IF d = 0 THEN NaN
    ELSE LET g == Gcd(Abs(n), Abs(d))
             sg == IF d < 0 THEN -1 ELSE 1
         IN  <<(sg * n) \div g, (sg * d) \div g>>

Rat(n, d) == Norm(n, d)

Zero == <<0, 1>>

One == <<1, 1>>

RAdd(x, y) ==
    IF IsNaN(x) \/ IsNaN(y) THEN NaN
    ELSE IF x[2] = y[2] THEN Norm(x[1] + y[1], x[2])
    ELSE Norm(x[1] * y[2] + y[1] * x[2], x[2] * y[2])

RNeg(x) == IF IsNaN(x) THEN NaN ELSE <<-x[1], x[2]>>

RSub(x, y) == RAdd(x, RNeg(y))

RMul(x, y) ==
    IF IsNaN(x) \/ IsNaN(y) THEN NaN
    ELSE Norm(x[1] * y[1], x[2] * y[2])

\* Division of numpy scalars: a zero divisor raises nothing and gives a
\* non-finite value.
RDiv(x, y) ==
    IF IsNaN(x) \/ IsNaN(y) \/ y[1] = 0 THEN NaN
    ELSE Norm(x[1] * y[2], x[2] * y[1])

RAbs(x) == IF IsNaN(x) THEN NaN ELSE <<Abs(x[1]), x[2]>>

\* x < y and x <= y; comparisons with NaN are false
RLess(x, y) == ~IsNaN(x) /\ ~IsNaN(y) /\ x[1] * y[2] < y[1] * x[2]

RLeq(x, y) == ~IsNaN(x) /\ ~IsNaN(y) /\ x[1] * y[2] <= y[1] * x[2]

\* --------------------------------------------------------- parameters ---
\* The script fixes R, lam, eta, a, da, pi, phi (lines 104-110) and the
\* centre m = 1.0037 and half-width delta = 0.0005 of the grid (line 136).
\* A run of the model starts from one of the parameter records below: two
\* regular parameterisations (q* = 4 and q* = 8/3, both with K* > nu > 0 and
\* B* > 0), each with and without the shock and with a grid that lies above
\* q*, as the script's does, or one that starts at q*, and three records on
\* which a divisor of the steady-state formulas is zero.  The numbers are
\* small fractions so that every product stays within TLC's integers.
Structural ==
    { [R |-> Rat(2, 1), lam |-> Rat(1, 2), eta |-> Rat(1, 2), a |-> One,
       pi |-> Rat(1, 2), phi |-> One],
      [R |-> Rat(2, 1), lam |-> Rat(3, 4), eta |-> Rat(1, 3), a |-> One,
       pi |-> Rat(1, 2), phi |-> One] }

Degenerate ==
    { \* R = 1
      [R |-> One, lam |-> Rat(1, 2), eta |-> Rat(1, 2), a |-> One,
       pi |-> Rat(1, 2), phi |-> One],
      \* eta = 0
      [R |-> Rat(2, 1), lam |-> Rat(1, 2), eta |-> Zero, a |-> One,
       pi |-> Rat(1, 2), phi |-> One],
      \* lam*pi + (1-lam)*(1-R+pi*R) = 0
      [R |-> Rat(3, 1), lam |-> Rat(1, 2), eta |-> Rat(1, 2), a |-> One,
       pi |-> Rat(1, 2), phi |-> One] }

Shocks == { Zero, Rat(1, 4) }

Grids ==
    { [m |-> Rat(11, 8), delta |-> Rat(1, 8)],
      [m |-> Rat(9, 8), delta |-> Rat(1, 8)] }

\* What an unconverged fsolve leaves in its result: the last iterate.
LastIterates == { "nan", "near", "far" }

VARIABLES
    pc,          \* position in the script
    par,         \* R, lam, eta, a, pi, phi
    da,          \* the shock
    grid,        \* m, delta
    lastIter,    \* the kind of iterate an unconverged solve ends on, for the
                 \* guesses of even and of odd index
    q_star, nu, K_star, B_star,
    Dt,          \* the shock schedule
    q_vec,       \* the grid of guesses
    q_mat, K_mat, B_mat,
    tpos,        \* per guess, the next t of its inner loop
    ier,         \* per guess and t, how the solve ended
    aUsed,       \* per guess and t, the productivity term the solve used
    writes,      \* per array and entry, the stores made by the solve loop
    inOrder,     \* whether every pass so far was the next one in loop order
    q_vec_abs, index,
    q_graph, K_graph, B_graph

vars == <<pc, par, da, grid, lastIter, q_star, nu, K_star, B_star, Dt, q_vec,
          q_mat, K_mat, B_mat, tpos, ier, aUsed, writes, inOrder, q_vec_abs,
          index, q_graph, K_graph, B_graph>>

cfgVars == <<par, da, grid, lastIter>>

ssVars == <<q_star, nu, K_star, B_star>>

initVars == <<Dt, q_vec>>

matVars == <<q_mat, K_mat, B_mat>>

loopVars == <<tpos, ier, aUsed, writes, inOrder>>

selVars == <<q_vec_abs, index>>

graphVars == <<q_graph, K_graph, B_graph>>

Init ==
    /\ pc = "start"
    /\ par \in Structural \cup Degenerate
    /\ da \in Shocks
    /\ grid \in Grids
    /\ lastIter \in [0 .. 1 -> LastIterates]
    /\ q_star = Unset /\ nu = Unset /\ K_star = Unset /\ B_star = Unset
    /\ Dt = Unset /\ q_vec = Unset
    /\ q_mat = Unset /\ K_mat = Unset /\ B_mat = Unset
    /\ tpos = Unset /\ ier = Unset /\ aUsed = Unset /\ writes = Unset
    /\ inOrder = TRUE
    /\ q_vec_abs = Unset /\ index = NoIndex
    /\ q_graph = Unset /\ K_graph = Unset /\ B_graph = Unset

\* ------------------------------------------------------- steady state ---
\* 1 - R + pi*R
OneMinusRPlusPiR(p) == RAdd(RSub(One, p.R), RMul(p.pi, p.R))

\* lam*pi + (1-lam)*(1 - R + pi*R)
Denominator(p) ==
    RAdd(RMul(p.lam, p.pi), RMul(RSub(One, p.lam), OneMinusRPlusPiR(p)))

\* pi*a - (1-lam)*(1 - R + pi*R)*phi
Numerator(p) ==
    RSub(RMul(p.pi, p.a),
         RMul(RMul(RSub(One, p.lam), OneMinusRPlusPiR(p)), p.phi))

QStar(p) ==
    RMul(RDiv(p.R, RSub(p.R, One)), RDiv(Numerator(p), Denominator(p)))

Nu(p, qs) == RMul(RDiv(RSub(p.R, One), p.R), RDiv(qs, p.eta))

KStar(p, qs, v) == RAdd(RMul(RDiv(RSub(p.R, One), p.R), qs), v)

BStar(p, ks) ==
    RMul(RMul(RDiv(One, RSub(p.R, One)),
              RAdd(RSub(p.a, p.phi), RMul(p.lam, p.phi))), ks)

\* The divisions of lines 114-117 are divisions of Python floats: a zero
\* divisor raises ZeroDivisionError and the script stops at that line.
\* Variant: only the long denominator is looked at, R - 1 is not.
RaisesAt114_DenominatorOnly(p) == Denominator(p) = Zero

RaisesAt114(p) == RSub(p.R, One) = Zero \/ Denominator(p) = Zero

RaisesAt115(p) == p.R = Zero \/ p.eta = Zero

SteadyState ==
    /\ pc = "start"
    /\ IF RaisesAt114(par)
       THEN /\ pc' = "zerodivision"
            /\ UNCHANGED ssVars
       ELSE IF RaisesAt115(par)
       THEN /\ pc' = "zerodivision"
            /\ q_star' = QStar(par)
            /\ UNCHANGED <<nu, K_star, B_star>>
       ELSE /\ pc' = "initialise"
            /\ q_star' = QStar(par)
            /\ nu' = Nu(par, q_star')
            /\ K_star' = KStar(par, q_star', nu')
            /\ B_star' = BStar(par, K_star')
    /\ UNCHANGED <<cfgVars, initVars, matVars, loopVars, selVars, graphVars>>

\* ----------------------------------------------------- initialisation ---
\* Dt = np.zeros(periods); Dt[1] = da
ShockSchedule(d) == [t \in Times |-> IF t = 1 THEN d ELSE Zero]

\* Variant: endpoint=False, the step is (stop-start)/num and stop is left out.
Linspace_Open(start, stop, num) ==
    [i \in 0 .. (num - 1) |->
        RAdd(start, RMul(Rat(i, 1), RDiv(RSub(stop, start), Rat(num, 1))))]

\* np.linspace(start, stop, num): start + i*step with step = (stop-start)/(num-1),
\* and the last entry set to stop
Linspace(start, stop, num) ==
    [i \in 0 .. (num - 1) |->
        IF num > 1 /\ i = num - 1 THEN stop
        ELSE IF num = 1 THEN start
        ELSE RAdd(start, RMul(Rat(i, 1), RDiv(RSub(stop, start), Rat(num - 1, 1))))]

\* q_vec = np.linspace(q_star*(m - delta), q_star*(m + delta), trials)
GuessGrid(qs, g) ==
    Linspace(RMul(qs, RSub(g.m, g.delta)), RMul(qs, RAdd(g.m, g.delta)), trials)

\* np.zeros((trials, periods))
Zeros == [s \in Guesses |-> [t \in Times |-> Zero]]

\* mat[:, col] = vec
SetColumn(mat, col, vec) ==
    [s \in Guesses |-> [t \in Times |-> IF t = col THEN vec[s] ELSE mat[s][t]]]

\* q_mat = zeros; q_mat[:,1] = q_vec; q_mat[:,0] = q_vecSS
InitQMat(qv, qs) ==
    SetColumn(SetColumn(Zeros, 1, qv), 0, Linspace(qs, qs, trials))

\* B_mat, K_mat = zeros; column 0 = B_star, K_star
InitStateMat(star) == SetColumn(Zeros, 0, Linspace(star, star, trials))

NoWrites == [s \in Guesses |-> [t \in Times |-> 0]]

Initialise ==
    /\ pc = "initialise"
    /\ pc' = "solve"
    /\ Dt' = ShockSchedule(da)
    /\ q_vec' = GuessGrid(q_star, grid)
    /\ q_mat' = InitQMat(q_vec', q_star)
    /\ B_mat' = InitStateMat(B_star)
    /\ K_mat' = InitStateMat(K_star)
    /\ tpos' = [s \in Guesses |-> 1]
    /\ ier' = [s \in Guesses |-> [t \in SolveTimes |-> 0]]
    /\ aUsed' = [s \in Guesses |-> [t \in SolveTimes |-> Unset]]
    /\ writes' = [q |-> NoWrites, K |-> NoWrites, B |-> NoWrites]
    /\ UNCHANGED <<inOrder, cfgVars, ssVars, selVars, graphVars>>

\* ------------------------------------------------- the per-period solve ---
\* The three matrices as one value.
Mats == [q |-> q_mat, K |-> K_mat, B |-> B_mat]

\* What the closure f of guess s, period t reads.
Qcur(M, s, t) == M.q[s][t]

\* Variant: the landholding of the next guess's row.
Kprev_Neighbour(M, s, t) == M.K[(s + 1) % trials][t - 1]

Kprev(M, s, t) == M.K[s][t - 1]

Bprev(M, s, t) == M.B[s][t - 1]

\* Variant: the shock of the period before.
Productivity_Previous(t) == RAdd(par.a, Dt[t - 1])

\* a + Dt[t]
Productivity(t) == RAdd(par.a, Dt[t])

first_eq(x, M, s, t) ==
    RNeg(RAdd(RSub(x[1], RMul(par.R, Qcur(M, s, t))),
              RMul(par.R, RSub(x[2], nu))))

second_eq(x, M, s, t) ==
    LET den == RSub(RAdd(par.phi, Qcur(M, s, t)), RDiv(x[1], par.R))
        net == RSub(RMul(RAdd(RAdd(Productivity(t), Qcur(M, s, t)),
                              RMul(par.lam, par.phi)),
                         Kprev(M, s, t)),
                    RMul(par.R, Bprev(M, s, t)))
    IN  RNeg(RSub(RSub(x[2],
                       RMul(RMul(RSub(One, par.pi), par.lam), Kprev(M, s, t))),
                  RMul(RDiv(par.pi, den), net)))

third_eq(x, M, s, t) ==
    RNeg(RAdd(RSub(RSub(RSub(x[3], RMul(par.R, Bprev(M, s, t))),
                        RMul(Qcur(M, s, t), RSub(x[2], Kprev(M, s, t)))),
                   RMul(par.phi,
                        RSub(x[2], RMul(par.lam, Kprev(M, s, t))))),
              RMul(Productivity(t), Kprev(M, s, t))))

f(x, M, s, t) ==
    <<first_eq(x, M, s, t), second_eq(x, M, s, t), third_eq(x, M, s, t)>>

\* f(x) = [0, 0, 0]
IsRoot(x, M, s, t) == f(x, M, s, t) = <<Zero, Zero, Zero>>

\* The iterates the root-finder can end on: K_t a half-integer, and q_{t+1} and
\* B_t the values the first and the third equation give for that K_t.
Lattice == { Rat(n, 2) : n \in 0 .. MaxK2 }

Iterate(k, M, s, t) ==
    << RMul(par.R, RSub(Qcur(M, s, t), RSub(k, nu))),
       k,
       RSub(RAdd(RAdd(RMul(par.R, Bprev(M, s, t)),
                      RMul(Qcur(M, s, t), RSub(k, Kprev(M, s, t)))),
                 RMul(par.phi, RSub(k, RMul(par.lam, Kprev(M, s, t))))),
            RMul(Productivity(t), Kprev(M, s, t))) >>

\* With q_{t+1} = R*(q_t - (K_t - nu)) the second equation reads
\* (K_t - (1-pi)*lam*K_{t-1}) * (phi + K_t - nu) = pi * net: the K_t of the
\* lattice that satisfy it are the only ones at which f can vanish.
Promising(M, s, t) ==
    LET keep == RMul(RMul(RSub(One, par.pi), par.lam), Kprev(M, s, t))
        shift == RSub(par.phi, nu)
        rhs == RMul(par.pi,
                    RSub(RMul(RAdd(RAdd(Productivity(t), Qcur(M, s, t)),
                                   RMul(par.lam, par.phi)),
                              Kprev(M, s, t)),
                         RMul(par.R, Bprev(M, s, t))))
    IN  { k \in Lattice : RMul(RSub(k, keep), RAdd(k, shift)) = rhs }

Roots(M, s, t) ==
    { x \in { Iterate(k, M, s, t) : k \in Promising(M, s, t) } :
        IsRoot(x, M, s, t) }

\* The starting point of every solve: (q_star, K_star, B_star)
x0 == <<q_star, K_star, B_star>>

LastIterate(kind) ==
    CASE kind = "nan" -> <<NaN, NaN, NaN>>
      [] kind = "near" -> <<RAdd(q_star, One), K_star, B_star>>
      [] kind = "far" -> <<RSub(q_star, Rat(2, 1)), K_star, B_star>>

\* opt.fsolve(f, (q_star, K_star, B_star)): a starting point that is a root is
\* returned as it is; otherwise the root nearest to the starting point; and
\* when the iteration finds no root, the last iterate is returned all the same
\* (fsolve warns and raises nothing).  ier is 1 for a converged solve.
fsolve(M, s, t) ==
    IF IsRoot(x0, M, s, t) THEN [x |-> x0, ier |-> 1]
    ELSE LET rs == Roots(M, s, t)
         IN  IF rs # {}
             THEN [x |-> CHOOSE r \in rs : \A o \in rs :
                            RLeq(RAbs(RSub(r[2], K_star)), RAbs(RSub(o[2], K_star))),
                   ier |-> 1]
             ELSE [x |-> LastIterate(lastIter[s % 2]), ier |-> 5]

\* Variant: the price stored at t instead of t+1.
Store_PriceAtT(M, s, t, x) ==
    [q |-> [M.q EXCEPT ![s][t] = x[1]],
     K |-> [M.K EXCEPT ![s][t] = x[2]],
     B |-> [M.B EXCEPT ![s][t] = x[3]]]

\* q_mat[s, t+1], K_mat[s, t], B_mat[s, t] = solution
Store(M, s, t, x) ==
    [q |-> [M.q EXCEPT ![s][t + 1] = x[1]],
     K |-> [M.K EXCEPT ![s][t] = x[2]],
     B |-> [M.B EXCEPT ![s][t] = x[3]]]

\* The entries one pass of the loop body stores into.
Stored(W, s, t) ==
    [q |-> [W.q EXCEPT ![s][t + 1] = @ + 1],
     K |-> [W.K EXCEPT ![s][t] = @ + 1],
     B |-> [W.B EXCEPT ![s][t] = @ + 1]]

\* One pass of the body of the loops, for guess s at period t.
ApplyStep(M, s, t) == Store(M, s, t, fsolve(M, s, t).x)

StepOf(s) ==
    LET t == tpos[s]
        solution == fsolve(Mats, s, t)
        M == Store(Mats, s, t, solution.x)
    IN  /\ q_mat' = M.q
        /\ K_mat' = M.K
        /\ B_mat' = M.B
        /\ ier' = [ier EXCEPT ![s][t] = solution.ier]
        /\ aUsed' = [aUsed EXCEPT ![s][t] = Productivity(t)]
        /\ writes' = Stored(writes, s, t)
        /\ tpos' = [tpos EXCEPT ![s] = t + 1]
        /\ inOrder' = (inOrder /\ \A r \in Guesses : r < s => tpos[r] > periods - 2)

Pending == { s \in Guesses : tpos[s] <= periods - 2 }

\* for s in range(0, trials): for t in range(1, periods-1): the next pass is
\* the one of the first guess whose inner loop has not finished.
CurS == CHOOSE s \in Pending : \A r \in Pending : s <= r

Step ==
    /\ pc = "solve"
    /\ Pending # {}
    /\ StepOf(CurS)
    /\ UNCHANGED <<pc, cfgVars, ssVars, initVars, selVars, graphVars>>

\* ---------------------------------------------------------- selection ---
\* q_mat[i, -1]
LastT == periods - 1

\* abs(1 - q_mat[i, -1]/q_star)
Score(M, i) == RAbs(RSub(One, RDiv(M.q[i][LastT], q_star)))

Scores(M) == [i \in Guesses |-> Score(M, i)]

\* np.min: NaN as soon as one entry is NaN
NpMin(v) ==
    IF \E i \in DOMAIN v : IsNaN(v[i]) THEN NaN
    ELSE CHOOSE x \in { v[i] : i \in DOMAIN v } : \A i \in DOMAIN v : RLeq(x, v[i])

\* np.argwhere(v == m): NaN equals nothing
ArgWhere(v, m) == { i \in DOMAIN v : ~IsNaN(v[i]) /\ ~IsNaN(m) /\ v[i] = m }

\* Variant: [-1, 0], the last row.
FirstOf_Last(hits) == CHOOSE i \in hits : \A j \in hits : i >= j

\* [0, 0] of the argwhere result: its first row
FirstOf(hits) == CHOOSE i \in hits : \A j \in hits : i <= j

\* index = np.argwhere(q_vec_abs == np.min(q_vec_abs))[0, 0]; no index when
\* the argwhere result is empty and [0, 0] raises IndexError
IndexOf(v) ==
    LET hits == ArgWhere(v, NpMin(v))
    IN  IF hits = {} THEN NoIndex ELSE FirstOf(hits)

Select ==
    /\ pc = "solve"
    /\ Pending = {}
    /\ q_vec_abs' = Scores(Mats)
    /\ index' = IndexOf(q_vec_abs')
    /\ pc' = IF index' = NoIndex THEN "indexerror" ELSE "selected"
    /\ UNCHANGED <<cfgVars, ssVars, initVars, matVars, loopVars, graphVars>>

\* ------------------------------------------------------------- graphs ---
\* mat[index, :]/star
GraphOf(mat, i, star) == [t \in Times |-> RDiv(mat[i][t], star)]

Graph ==
    /\ pc = "selected"
    /\ B_graph' = GraphOf(B_mat, index, B_star)
    /\ K_graph' = GraphOf(K_mat, index, K_star)
    /\ q_graph' = GraphOf(q_mat, index, q_star)
    /\ pc' = "done"
    /\ UNCHANGED <<cfgVars, ssVars, initVars, matVars, loopVars, selVars>>

Next == SteadyState \/ Initialise \/ Step \/ Select \/ Graph

Spec == Init /\ [][Next]_vars

\* ------------------------------------------- the guesses as independent tasks ---
\* The same passes of the loop body, taken in any order: each guess advances
\* through its own periods, and the selection waits for all of them.
ParStep ==
    /\ pc = "solve"
    /\ \E s \in Pending : StepOf(s)
    /\ UNCHANGED <<pc, cfgVars, ssVars, initVars, selVars, graphVars>>

NextPar == SteadyState \/ Initialise \/ ParStep \/ Select \/ Graph

\* The runs in which the unconverged solves of the even guesses end near the
\* starting point; those of the odd guesses end anywhere.
InitPar == Init /\ lastIter[0] = "near"

SpecPar == InitPar /\ [][NextPar]_vars

\* The matrices as the initialisation leaves them, and the result of running
\* the two loops over them in the script's order, from pass (s, t) on.
InitialMats ==
    [q |-> InitQMat(q_vec, q_star),
     K |-> InitStateMat(K_star),
     B |-> InitStateMat(B_star)]

RECURSIVE RunFrom(_, _, _)
RunFrom(M, s, t) ==
    IF s >= trials THEN M
    ELSE IF t > periods - 2 THEN RunFrom(M, s + 1, 1)
    ELSE RunFrom(ApplyStep(M, s, t), s, t + 1)

\* ================================================================ claims ===
Initialised == pc \in {"solve", "selected", "indexerror", "done"}

AllSolved == Initialised /\ Pending = {}

Selected == pc \in {"selected", "done"}

Failed(s) == \E t \in SolveTimes : ier[s][t] # 1

\* |1 - q_T/q*| of guess i, q_T the last entry of its price row
TerminalScore(i) == RAbs(RSub(One, RDiv(q_mat[i][periods - 1], q_star)))

\* C1: once an index has been selected, its score |1 - q_T/q*| is less than or
\* equal to the score of every guess, and every guess before it in grid order
\* has a strictly larger score (ties go to the first occurrence).
C1_SelectsFirstMinimum ==
    Selected =>
        /\ index \in Guesses
        /\ \A i \in Guesses : RLeq(TerminalScore(index), TerminalScore(i))
        /\ \A i \in Guesses : i < index => RLess(TerminalScore(index), TerminalScore(i))

\* C1 witness: a selection among tied minimal scores, with a larger score
\* present as well.
C1_Witness ==
    /\ pc = "selected"
    /\ \E i \in Guesses : i > index /\ TerminalScore(i) = TerminalScore(index)
    /\ \E j \in Guesses : RLess(TerminalScore(index), TerminalScore(j))

\* C2: a guess one of whose solves did not converge is never the selected
\* winner.
C2_FailedGuessNeverWins == Selected => ~Failed(index)

\* C3: when every guess had a solve that did not converge, the search ends
\* without a winner: no index is selected and nothing is graphed.
C3_ExhaustedHasNoWinner ==
    (AllSolved /\ pc # "solve" /\ \A s \in Guesses : Failed(s)) =>
        (pc = "indexerror" /\ index = NoIndex)

\* C4: with R = 1, eta = 0 or a zero denominator the steady-state computation
\* ends in the error outcome: nu, K* and B* are never assigned, q* is
\* unassigned or finite, and the initialisation, the search and the selection
\* never start.
C4_DomainError ==
    (pc # "start" /\ (par.R = One \/ par.eta = Zero \/ Denominator(par) = Zero)) =>
        /\ pc = "zerodivision"
        /\ nu = Unset /\ K_star = Unset /\ B_star = Unset
        /\ q_star # NaN
        /\ Dt = Unset /\ q_vec = Unset /\ q_mat = Unset /\ K_mat = Unset
        /\ B_mat = Unset /\ tpos = Unset /\ q_vec_abs = Unset
        /\ index = NoIndex /\ q_graph = Unset

\* C4 witness: the error outcome on each of the three zero divisors.
C4_Witness ==
    /\ pc = "zerodivision"
    /\ par.R = One \/ par.eta = Zero \/ Denominator(par) = Zero

\* C5: with a zero shock and a guess equal to q* whose solves all converged,
\* the trajectory is (q*, K*, B*) at every period 0..T.
C5_ConstantTrajectory ==
    (AllSolved /\ da = Zero) =>
        \A s \in Guesses :
            (q_vec[s] = q_star /\ ~Failed(s)) =>
                \A t \in Times : /\ q_mat[s][t] = q_star
                                 /\ K_mat[s][t] = K_star
                                 /\ B_mat[s][t] = B_star

\* C6: in the trajectory handed to the graphs, q_t for t in 2..T and K_t, B_t
\* for t in 1..T were each stored by a solve.
C6_EveryEntrySolved ==
    pc = "done" =>
        /\ DOMAIN q_graph = Times /\ DOMAIN K_graph = Times /\ DOMAIN B_graph = Times
        /\ \A t \in 2 .. (periods - 1) : writes.q[index][t] >= 1
        /\ \A t \in 1 .. (periods - 1) : writes.K[index][t] >= 1 /\ writes.B[index][t] >= 1

\* C7: whatever the order in which the passes of the guesses were taken, once
\* all are done the three matrices, the scores and the selected index are
\* those of the run in grid order.
C7_OrderIndependent ==
    (AllSolved /\ pc # "solve") =>
        LET M == RunFrom(InitialMats, 0, 1)
        IN  /\ Mats = M
            /\ q_vec_abs = Scores(M)
            /\ index = IndexOf(Scores(M))

\* C7 witness: a finished search whose passes were not taken in grid order.
C7_Witness == pc = "selected" /\ ~inOrder

\* C8: the grid has trials entries, strictly increasing and evenly spaced, from
\* q*(m - delta) to q*(m + delta) exactly; the period-1 price of trajectory s
\* is grid entry s and its period-0 price is q*.
C8_GuessGrid ==
    Initialised =>
        /\ DOMAIN q_vec = 0 .. (trials - 1)
        /\ \A i \in 0 .. (trials - 2) : RLess(q_vec[i], q_vec[i + 1])
        /\ \A i, j \in 0 .. (trials - 2) :
              RSub(q_vec[i + 1], q_vec[i]) = RSub(q_vec[j + 1], q_vec[j])
        /\ q_vec[0] = RMul(q_star, RSub(grid.m, grid.delta))
        /\ q_vec[trials - 1] = RMul(q_star, RAdd(grid.m, grid.delta))
        /\ \A s \in Guesses : q_mat[s][1] = q_vec[s] /\ q_mat[s][0] = q_star

\* C8 witness: the grid still in place in the rows after the whole run.
C8_Witness == pc = "done" /\ q_vec[0] # q_vec[trials - 1]

\* An entry of the matrices that has its final value: pinned at period 0, the
\* guess at period 1, or stored by a pass.
FixedQ(s, t) == t <= 1 \/ writes.q[s][t] = 1

FixedKB(s, t) == t = 0 \/ (writes.K[s][t] = 1 /\ writes.B[s][t] = 1)

\* The matrices with everything but K_{t-1}, B_{t-1} and q_t of guess s zeroed.
OnlyInputs(s, t) ==
    [q |-> [Zeros EXCEPT ![s][t] = q_mat[s][t]],
     K |-> [Zeros EXCEPT ![s][t - 1] = K_mat[s][t - 1]],
     B |-> [Zeros EXCEPT ![s][t - 1] = B_mat[s][t - 1]]]

C9_InputsFixed ==
    (pc = "solve" /\ Pending # {}) =>
        /\ FixedKB(CurS, tpos[CurS] - 1)
        /\ FixedQ(CurS, tpos[CurS])
        /\ \A s \in Guesses : \A t \in Times :
              /\ writes.q[s][t] <= 1 /\ writes.K[s][t] <= 1 /\ writes.B[s][t] <= 1
              /\ t <= 1 => writes.q[s][t] = 0
              /\ t = 0 => writes.K[s][t] = 0 /\ writes.B[s][t] = 0

C9_PassFrame ==
    (pc = "solve" /\ pc' = "solve" /\ tpos' # tpos) =>
        LET s == CurS
            t == tpos[s]
            x == fsolve(OnlyInputs(s, t), s, t).x
        IN  /\ tpos' = [tpos EXCEPT ![s] = t + 1]
            /\ q_mat' = [q_mat EXCEPT ![s][t + 1] = x[1]]
            /\ K_mat' = [K_mat EXCEPT ![s][t] = x[2]]
            /\ B_mat' = [B_mat EXCEPT ![s][t] = x[3]]
            /\ Dt' = Dt

\* C9: the passes of a guess run in the order t = 1, 2, ..., T-1; pass t finds
\* K_{t-1}, B_{t-1} and q_t already fixed, its result depends on nothing else
\* in the matrices, and it changes exactly q_{t+1}, K_t and B_t; no entry is
\* stored twice and the period-0 state and the guess are never stored into.
C9_StepFrame == []C9_InputsFixed /\ [][C9_PassFrame]_vars

\* C9 witness: a guess whose passes have all run.
C9_Witness == pc = "solve" /\ \E s \in Guesses : tpos[s] = periods - 1 /\ writes.q[s][periods - 1] = 1

\* C10: the shock schedule is da at period 1 and zero at every other period,
\* from the initialisation on; the productivity term of pass t is a + da for
\* t = 1 and a for every later t.
C10_OneTimeShock ==
    Initialised =>
        /\ Dt = [t \in Times |-> IF t = 1 THEN da ELSE Zero]
        /\ \A s \in Guesses : \A t \in SolveTimes :
              aUsed[s][t] # Unset =>
                  aUsed[s][t] = IF t = 1 THEN RAdd(par.a, da) ELSE par.a

\* C10 witness: a finished run with a nonzero shock, used at t = 1 and absent
\* at t = 2.
C10_Witness ==
    /\ pc = "done"
    /\ da # Zero
    /\ \A s \in Guesses : aUsed[s][1] = RAdd(par.a, da) /\ aUsed[s][2] = par.a
=============================================================================
